---- MODULE Spec2Model ----
(***************************************************************************)
(* The two LangGraph workflows of the repository:                          *)
(*   - the release workflow of src/agent/re_agent_v2.py                    *)
(*       consult_slack_messages -> check_albert_message                    *)
(*         -[validate_approval]-> trigger_pipeline -> check_pipeline_status*)
(*   - the joke workflow of src/agent/re_agent.py                          *)
(*       generate_joke -[check_punchline]-> improve_joke -> polish_joke    *)
(*         -> ask_for_applause                                             *)
(* One behaviour is one run of chain.invoke(initial state).  The external  *)
(* collaborators (Slack, the language model, Azure DevOps) answer          *)
(* nondeterministically at every call.  Text whose content the code        *)
(* inspects is a sequence of one-character strings.                        *)
(***************************************************************************)
EXTENDS Integers, Sequences, FiniteSets, TLC

VARIABLES
    wf,            \* which chain is invoked: "release" or "joke"
    pc,            \* the node about to run, "poll" (inside the polling loop), "END" or "RAISED"
    state,         \* the State record threaded through the run: present field -> value
    input,         \* history: the record chain.invoke was called with
    attempt,       \* check_pipeline_status: the local attempt counter
    AZURE_DEVOPS_PIPELINE_ID,   \* os.getenv("AZURE_DEVOPS_PIPELINE_ID"), text or the empty text
    AZURE_DEVOPS_TOKEN,         \* TRUE when AZURE_DEVOPS_TOKEN is set
    executed,      \* history: names of the nodes whose work function was called, in order
    writes,        \* history: the partial updates the nodes returned, in order
    triggerCalls,  \* history: invocations of trigger_azure_pipeline
    triggered,     \* history: the "id" of the run the trigger request created, 0 when none
    checks,        \* history: invocations of get_pipeline_status
    sleeps,        \* history: calls of time.sleep
    pendings,      \* history: status answers so far, while each of them was Pending
                   \*          (usable and not completed); -1 once one was None or empty
    malformed,     \* history: status answers whose interpretation raised
    completions,   \* history: status answers that were completed
    albertSeen,    \* history: texts of the messages users.info resolved to Albert H.
    llmAnswer,     \* history: what llm.invoke answered in check_albert_message: "none"
                   \*          (not called), "raised", "approved" (the word Approved and
                   \*          nothing else but white space), "mentions" (a longer
                   \*          text that holds the word Approved) or "other"
    errorsWritten, \* history: the error values nodes wrote
    errorsRead,    \* history: the error values a gate read
    lastGate,      \* history: <<node, label>> of the last gate evaluated, or <<>>
    posts_db,      \* the posts store of emulation/teams/app.py, in insertion order
    replies_db,    \* its replies store, in insertion order
    uuids,         \* the calls of uuid.uuid4() so far: call n yields the id n
    request,       \* history: the request the store served last (its handler, the
                   \*          id it named, the replies stored when it came), or <<>>
    response       \* the response to it: status and body or detail, or <<>>

vars == <<wf, pc, state, input, attempt, AZURE_DEVOPS_PIPELINE_ID, AZURE_DEVOPS_TOKEN,
          executed, writes, triggerCalls, triggered, checks, sleeps, pendings,
          malformed, completions, albertSeen, llmAnswer, errorsWritten,
          errorsRead, lastGate, posts_db, replies_db, uuids, request, response>>

----------------------------------------------------------------------------
(* Bounds of the model *)

\* longest list of messages conversations.history returns
MaxMessages == 2

\* the store is explored up to this many calls of uuid.uuid4()
MaxUuids == 4

----------------------------------------------------------------------------
(* Text *)

Approved == <<"A", "p", "p", "r", "o", "v", "e", "d">>
Rejected == <<"R", "e", "j", "e", "c", "t", "e", "d">>
Runs == <<"r", "u", "n", "s">>

Whitespace == {" ", "\n"}

\* Python: sub in s
Contains(sub, s) ==
    \E i \in 0..(Len(s) - Len(sub)) :
        \A j \in 1..Len(sub) : s[i + j] = sub[j]

RECURSIVE LStrip(_)
LStrip(s) ==
    IF s # <<>> /\ Head(s) \in Whitespace THEN LStrip(Tail(s)) ELSE s

RECURSIVE RStrip(_)
RStrip(s) ==
    IF s # <<>> /\ s[Len(s)] \in Whitespace
    THEN RStrip(SubSeq(s, 1, Len(s) - 1))
    ELSE s

\* Python: s.strip()
Strip(s) == RStrip(LStrip(s))

Digits == {"0", "1", "2", "3", "4", "5", "6", "7", "8", "9"}

DigitVal(c) ==
    CASE c = "0" -> 0 [] c = "1" -> 1 [] c = "2" -> 2 [] c = "3" -> 3
      [] c = "4" -> 4 [] c = "5" -> 5 [] c = "6" -> 6 [] c = "7" -> 7
      [] c = "8" -> 8 [] c = "9" -> 9

\* int(s) raises ValueError unless s is a decimal numeral
IsNumeral(s) == s # <<>> /\ \A i \in 1..Len(s) : s[i] \in Digits

RECURSIVE ParseInt(_)
ParseInt(s) ==
    IF s = <<>> THEN 0
    ELSE 10 * ParseInt(SubSeq(s, 1, Len(s) - 1)) + DigitVal(s[Len(s)])

----------------------------------------------------------------------------
(* The State record and its merge *)

Range(q) == {q[i] : i \in DOMAIN q}

NoUpdate == [f \in {} |-> 0]

\* a node's result: it returned the partial update, or it raised
Return(update) == [raised |-> FALSE, update |-> update]
Raise == [raised |-> TRUE, update |-> NoUpdate]

Has(s, f) == f \in DOMAIN s

\* Python: state.get(f, default)
Get(s, f, default) == IF Has(s, f) THEN s[f] ELSE default

\* the update replaces the whole record
MergeReplacing(s, update) == update

MergeKeepingFirst(s, update) ==
    [f \in DOMAIN s \cup DOMAIN update |->
        IF f \in DOMAIN s THEN s[f] ELSE update[f]]

\* every channel of State is a plain field: an update overwrites the field
Merge(s, update) ==
    [f \in DOMAIN s \cup DOMAIN update |->
        IF f \in DOMAIN update THEN update[f] ELSE s[f]]

----------------------------------------------------------------------------
(* Letter case *)

LowerLetters == <<"a", "b", "c", "d", "e", "f", "g", "h", "i", "j", "k", "l", "m",
                  "n", "o", "p", "q", "r", "s", "t", "u", "v", "w", "x", "y", "z">>
UpperLetters == <<"A", "B", "C", "D", "E", "F", "G", "H", "I", "J", "K", "L", "M",
                  "N", "O", "P", "Q", "R", "S", "T", "U", "V", "W", "X", "Y", "Z">>

\* upper-case letter -> lower-case letter, and back
ToLower ==
    [c \in Range(UpperLetters) |->
        LowerLetters[CHOOSE i \in DOMAIN UpperLetters : UpperLetters[i] = c]]
ToUpper ==
    [c \in Range(LowerLetters) |->
        UpperLetters[CHOOSE i \in DOMAIN LowerLetters : LowerLetters[i] = c]]

LowerChar(c) == IF c \in DOMAIN ToLower THEN ToLower[c] ELSE c

UpperChar(c) == IF c \in DOMAIN ToUpper THEN ToUpper[c] ELSE c

\* Python: s.lower()
Lower(s) == [i \in DOMAIN s |-> LowerChar(s[i])]

\* Python: s.capitalize()
Capitalize(s) ==
    [i \in DOMAIN s |-> IF i = 1 THEN UpperChar(s[i]) ELSE LowerChar(s[i])]

----------------------------------------------------------------------------
(* Slack: the channel list, the channel history, the user directory *)

\* what one HTTP call can do besides answering 200 with "ok": true
Failures == {"raises", "http_error", "not_ok"}

ChannelListAnswers == Failures \cup {"listed", "unlisted"}

\* None is the text "None"; a channel found is its id
get_slack_channel_id(channel, answer) ==
    IF answer = "listed" THEN "C0123" ELSE "None"

AlbertH == <<"A", "l", "b", "e", "r", "t", " ", "H", ".">>

\* the messages a channel holds: from Albert H. with and without text, from another
\* user; each is a JSON object with "user" and "text", as conversations.history sends
Messages ==
    {[user |-> "U_ALBERT", text |-> "Ship it"],
     [user |-> "U_ALBERT", text |-> ""],
     [user |-> "U_OTHER", text |-> "Ship it"]}

RECURSIVE SeqsUpTo(_, _)
SeqsUpTo(S, n) ==
    IF n = 0 THEN {<<>>}
    ELSE LET shorter == SeqsUpTo(S, n - 1)
         IN  shorter \cup {Append(q, x) : q \in shorter, x \in S}

MessageLists == SeqsUpTo(Messages, MaxMessages)

HistoryAnswers ==
    [kind : Failures, messages : {<<>>}] \cup [kind : {"ok"}, messages : MessageLists]

\* the list returned; an HTTP error or "ok": false gives the empty list
get_slack_messages(answer) ==
    IF answer.kind = "ok" THEN answer.messages ELSE <<>>

\* users.info of a user id, when it answers 200 with "ok": true
Profile(user) ==
    IF user = "U_ALBERT"
    THEN [real_name |-> AlbertH, display_name |-> <<"a", "l">>]
    ELSE [real_name |-> <<"B", "o", "b">>, display_name |-> <<"b", "o", "b">>]

LookupAnswers == Failures \cup {"ok"}

----------------------------------------------------------------------------
(* Node 1: consult_slack_messages *)

consult_slack_messages(s, channelAnswer, historyAnswer) ==
    IF ~Has(s, "channel") THEN Raise                \* state["channel"], outside the try
    ELSE IF channelAnswer = "raises"
    THEN Return([error |-> "Error fetching Slack messages"])
    ELSE IF get_slack_channel_id(s["channel"], channelAnswer) = "None"
    THEN Return([error |-> "Channel not found or not accessible"])
    ELSE IF historyAnswer.kind = "raises"
    THEN Return([error |-> "Error fetching Slack messages"])
    ELSE Return([slack_messages |-> get_slack_messages(historyAnswer)])

----------------------------------------------------------------------------
(* Node 1a: check_albert_message *)

\* the user of message i is recognised as Albert H.
IsAlbert(message, lookup) ==
    /\ lookup = "ok"
    /\ \/ Contains(AlbertH, Profile(message.user).real_name)
       \/ Contains(AlbertH, Profile(message.user).display_name)

\* the loop over the messages: index of the message it breaks at, 0 when it
\* runs to the end
FindAlbert(messages, lookups) ==
    IF \E i \in DOMAIN messages : IsAlbert(messages[i], lookups[i])
    THEN CHOOSE i \in DOMAIN messages :
            /\ IsAlbert(messages[i], lookups[i])
            /\ \A j \in 1..(i - 1) : ~IsAlbert(messages[j], lookups[j])
    ELSE 0

\* albert_message after the loop; None and "" are both false and both ""
AlbertMessage(messages, lookups) ==
    LET i == FindAlbert(messages, lookups)
    IN  IF i = 0 THEN "" ELSE messages[i].text

LlmAnswers ==
    [kind : {"raises", "blocks"}, content : {<<>>}]
      \cup [kind : {"text"},
            content : {Approved, <<" ">> \o Approved \o <<"\n">>, Rejected,
                       <<"N", "o", "t", " ">> \o Approved, Lower(Approved), <<>>}]

\* approve every answer that does not say Rejected
check_albert_message_unless_rejected(s, lookups, llm) ==
    LET albert_message == AlbertMessage(Get(s, "slack_messages", <<>>), lookups)
    IN  IF albert_message = ""
        THEN Return([albert_message |-> "",
                     llm_approval |-> "Rejected",
                     error |-> "No message from Albert H. found in channel"])
        ELSE IF llm.kind \in {"raises", "blocks"}
        THEN Return([albert_message |-> albert_message,
                     llm_approval |-> "Rejected",
                     error |-> "Error evaluating message with LLM"])
        ELSE Return([albert_message |-> albert_message,
                     llm_approval |->
                        IF Contains(Rejected, Strip(llm.content))
                        THEN "Rejected" ELSE "Approved"])

check_albert_message(s, lookups, llm) ==
    LET albert_message == AlbertMessage(Get(s, "slack_messages", <<>>), lookups)
    IN  IF albert_message = ""
        THEN Return([albert_message |-> "",
                     llm_approval |-> "Rejected",
                     error |-> "No message from Albert H. found in channel"])
        ELSE IF llm.kind \in {"raises", "blocks"}      \* llm.invoke or .strip() raised
        THEN Return([albert_message |-> albert_message,
                     llm_approval |-> "Rejected",
                     error |-> "Error evaluating message with LLM"])
        ELSE Return([albert_message |-> albert_message,
                     llm_approval |->
                        IF Contains(Approved, Strip(llm.content))
                        THEN "Approved" ELSE "Rejected"])

validate_approval_ignoring_case(s) ==
    IF Get(s, "llm_approval", "") \in {"Approved", "approved", "APPROVED"}
    THEN "Approved" ELSE "Rejected"

validate_approval_any_answer(s) ==
    IF Get(s, "llm_approval", "") # "" THEN "Approved" ELSE "Rejected"

\* Gate of check_albert_message
validate_approval(s) ==
    IF Get(s, "llm_approval", "") = "Approved" THEN "Approved" ELSE "Rejected"

----------------------------------------------------------------------------
(* Azure DevOps: configuration, trigger, status *)

\* values of the AZURE_DEVOPS_PIPELINE_ID variable: unset, a numeral, no numeral
PipelineIdSettings == {<<>>, <<"7">>, <<"a", "b", "c">>}

\* "_links.self.href" of a run, split at "/"; <<>> when the body has none
Hrefs ==
    { <<>>,
      <<<<"d", "e", "v">>, Runs, <<"4", "2">>>>,
      <<<<"d", "e", "v">>, Runs, <<"4", "2", "?", "v">>>>,
      <<<<"d", "e", "v">>, Runs>>,
      <<<<"d", "e", "v">>, <<"4", "2">>>> }

\* "id" of a run: absent, a positive integer (Azure numbers runs from 1), or a
\* JSON number that is no int
RunIds == {[t |-> "missing", v |-> 0], [t |-> "int", v |-> 42], [t |-> "float", v |-> 42]}

NoBody == [empty |-> TRUE, id |-> [t |-> "missing", v |-> 0], href |-> <<>>]

TriggerAnswers ==
    [kind : {"raises", "http_error", "invalid_json"}, body : {NoBody}]
      \cup [kind : {"ok"},
            body : {NoBody} \cup [empty : {FALSE}, id : RunIds, href : Hrefs]]

\* the dict returned, or None: none |-> TRUE
trigger_azure_pipeline(pipeline_id, answer) ==
    IF ~AZURE_DEVOPS_TOKEN THEN [none |-> TRUE, body |-> NoBody]
    ELSE IF answer.kind = "ok" THEN [none |-> FALSE, body |-> answer.body]
    ELSE [none |-> TRUE, body |-> NoBody]

\* the part after "runs" in the href, <<>> when there is none (build_id stays None)
RunsPart(parts) ==
    IF \E i \in DOMAIN parts : parts[i] = Runs /\ i + 1 <= Len(parts)
    THEN parts[1 + CHOOSE i \in DOMAIN parts :
                    /\ parts[i] = Runs /\ i + 1 <= Len(parts)
                    /\ \A j \in 1..(i - 1) : ~(parts[j] = Runs /\ j + 1 <= Len(parts))]
    ELSE <<>>

trigger_pipeline(s, answer) ==
    IF AZURE_DEVOPS_PIPELINE_ID = <<>>
    THEN Return([error |-> "Azure DevOps pipeline ID not configured"])
    ELSE IF ~IsNumeral(AZURE_DEVOPS_PIPELINE_ID)       \* int() raises ValueError
    THEN Return([error |-> "Invalid pipeline ID format"])
    ELSE
      LET pipeline_id == ParseInt(AZURE_DEVOPS_PIPELINE_ID)
          result == trigger_azure_pipeline(pipeline_id, answer)
          id == result.body.id
          part == RunsPart(result.body.href)
      IN  IF result.none \/ result.body.empty
          THEN Return([error |-> "Failed to trigger Azure DevOps pipeline - check logs for details"])
          ELSE IF id.t = "int" /\ id.v # 0
          THEN Return([pipeline_id |-> pipeline_id,
                       build_id |-> id.v,
                       build_status |-> [text |-> "InProgress", result |-> <<>>]])
          ELSE IF id.t = "float" /\ id.v # 0          \* no str, no int: the pipeline id
          THEN Return([pipeline_id |-> pipeline_id,
                       build_id |-> pipeline_id,
                       build_status |-> [text |-> "InProgress", result |-> <<>>]])
          ELSE IF part = <<>>
          THEN Return([error |-> "Failed to extract build ID from pipeline trigger response",
                       pipeline_id |-> pipeline_id])
          ELSE IF ~IsNumeral(part)                    \* int(build_id) raises ValueError
          THEN Return([error |-> "Invalid pipeline ID format"])
          ELSE Return([pipeline_id |-> pipeline_id,
                       build_id |-> ParseInt(part),
                       build_status |-> [text |-> "InProgress", result |-> <<>>]])

\* "state" and "result" of a run: absent, null, a number, or text
Missing == <<"<", "m", ">">>
Null == <<"<", "n", ">">>
Number == <<"<", "1", ">">>
Completed == <<"c", "o", "m", "p", "l", "e", "t", "e", "d">>
InProgress == <<"i", "n", "P", "r", "o", "g", "r", "e", "s", "s">>
Succeeded == <<"s", "u", "c", "c", "e", "e", "d", "e", "d">>

RunStates == {Missing, Null, Completed, Capitalize(Completed), InProgress}
RunResults == {Missing, Number, Succeeded}

StatusAnswers ==
    [kind : {"raises", "http_error", "invalid_json", "empty"},
     state : {Missing}, result : {Missing}]
      \cup [kind : {"object"}, state : RunStates, result : RunResults]

\* the dict returned, or None: none |-> TRUE
get_pipeline_status(pipeline_id, run_id, answer) ==
    IF ~AZURE_DEVOPS_TOKEN THEN [none |-> TRUE, empty |-> TRUE, state |-> Missing, result |-> Missing]
    ELSE IF answer.kind \in {"raises", "http_error", "invalid_json"}
    THEN [none |-> TRUE, empty |-> TRUE, state |-> Missing, result |-> Missing]
    ELSE [none |-> FALSE, empty |-> answer.kind = "empty",
          state |-> answer.state, result |-> answer.result]

\* one pass of the while body on run_info: what it decides
\*   "retry"     run_info is None or empty
\*   "raise"     reading state or result raised: the except returns an error
\*   "completed" the run state is completed
\*   "pending"   anything else
Interpret(run_info) ==
    IF run_info.none \/ run_info.empty THEN "retry"
    ELSE IF run_info.state \in {Null, Number} THEN "raise"      \* None.lower()
    ELSE IF run_info.result = Number THEN "raise"               \* (1).lower()
    ELSE IF Lower(IF run_info.state = Missing THEN <<>> ELSE run_info.state) = Completed
    THEN "completed"
    ELSE "pending"

\* status_msg of a completed run
StatusMsg(run_info) ==
    IF run_info.result \in {Missing, Null}
    THEN [text |-> "Completed", result |-> <<>>]
    ELSE [text |-> "Completed - ", result |-> Capitalize(Lower(run_info.result))]

max_attempts == 100

AttemptingInclusive(a) == a <= max_attempts

\* the while condition
Attempting(a) == a < max_attempts

LoopSleepAfterEveryCheck(outcome) == TRUE

\* sleep on the way out of a completed answer as well
LoopSleepUnlessRaise(outcome) == outcome # "raise"

\* the while body sleeps, then counts the attempt, unless it returns
LoopSleep(outcome) == outcome \in {"pending", "retry"}

TimeoutUpdateWithoutError ==
    [build_status |-> [text |-> "Timeout - Status check exceeded maximum attempts",
                       result |-> <<>>]]

\* the return after the loop
TimeoutUpdate ==
    [build_status |-> [text |-> "Timeout - Status check exceeded maximum attempts",
                       result |-> <<>>],
     error |-> "Pipeline status check timed out"]

\* look at the pipeline id only
HasRunPipelineOnly(s) == Get(s, "pipeline_id", 0) # 0

\* the guard before the loop: None and 0 are both false
HasRun(s) == Get(s, "pipeline_id", 0) # 0 /\ Get(s, "build_id", 0) # 0

----------------------------------------------------------------------------
(* The joke workflow: nodes and gate *)

Jokes == {<<"C", "a", "t", "s">>, <<"W", "h", "y", "?">>, <<"W", "o", "w", "!">>}

JokeAnswers == [kind : {"raises"}, content : {<<>>}] \cup [kind : {"text"}, content : Jokes]

generate_joke(s, llm) ==
    IF ~Has(s, "topic") \/ llm.kind = "raises" THEN Raise
    ELSE Return([joke |-> llm.content])

\* pass only a joke that holds both marks
check_punchline_both(s) ==
    IF Contains(<<"?">>, s["joke"]) /\ Contains(<<"!">>, s["joke"])
    THEN "Pass" ELSE "Fail"

check_punchline_failed(s) ==
    IF Contains(<<"?">>, s["joke"]) \/ Contains(<<"!">>, s["joke"])
    THEN "Pass" ELSE "Failed"

\* Gate of generate_joke
check_punchline(s) ==
    IF Contains(<<"?">>, s["joke"]) \/ Contains(<<"!">>, s["joke"])
    THEN "Pass" ELSE "Fail"

improve_joke(s, llm) ==
    IF ~Has(s, "joke") \/ llm.kind = "raises" THEN Raise
    ELSE Return([improved_joke |-> llm.content])

ask_for_applause(s, llm) ==
    IF ~Has(s, "joke") \/ llm.kind = "raises" THEN Raise
    ELSE Return([ask_for_applause |-> llm.content])

polish_joke(s, llm) ==
    IF ~Has(s, "improved_joke") \/ llm.kind = "raises" THEN Raise
    ELSE Return([final_joke |-> llm.content])

----------------------------------------------------------------------------
(* The graphs *)

\* add_edge(START, node)
EntryPoint(w) ==
    IF w = "release" THEN "consult_slack_messages" ELSE "generate_joke"

\* an engine that ends the run once the merged state holds an error
EdgeStoppingOnError(node) ==
    IF Has(state', "error") THEN "END"
    ELSE CASE node = "consult_slack_messages" -> "check_albert_message"
           [] node = "trigger_pipeline" -> "check_pipeline_status"
           [] node = "check_pipeline_status" -> "END"
           [] node = "improve_joke" -> "polish_joke"
           [] node = "polish_joke" -> "ask_for_applause"
           [] node = "ask_for_applause" -> "END"

\* trigger_pipeline wired to END: the status node is left out of the graph
EdgeSkippingStatus(node) ==
    CASE node = "consult_slack_messages" -> "check_albert_message"
      [] node = "trigger_pipeline" -> "END"
      [] node = "check_pipeline_status" -> "END"
      [] node = "improve_joke" -> "polish_joke"
      [] node = "polish_joke" -> "ask_for_applause"
      [] node = "ask_for_applause" -> "END"

EdgeRetriggering(node) ==
    CASE node = "consult_slack_messages" -> "check_albert_message"
      [] node = "trigger_pipeline" -> "check_pipeline_status"
      [] node = "check_pipeline_status" -> "trigger_pipeline"
      [] node = "improve_joke" -> "polish_joke"
      [] node = "polish_joke" -> "ask_for_applause"
      [] node = "ask_for_applause" -> "END"

\* add_edge(node, target)
Edge(node) ==
    CASE node = "consult_slack_messages" -> "check_albert_message"
      [] node = "trigger_pipeline" -> "check_pipeline_status"
      [] node = "check_pipeline_status" -> "END"
      [] node = "improve_joke" -> "polish_joke"
      [] node = "polish_joke" -> "ask_for_applause"
      [] node = "ask_for_applause" -> "END"

\* add_conditional_edges(node, gate, mapping)
ConditionalNodes == {"check_albert_message", "generate_joke"}

MappingRetryOnReject(node) ==
    IF node = "check_albert_message"
    THEN [Approved |-> "trigger_pipeline", Rejected |-> "consult_slack_messages"]
    ELSE [Fail |-> "improve_joke", Pass |-> "ask_for_applause"]

Mapping(node) ==
    IF node = "check_albert_message"
    THEN [Approved |-> "trigger_pipeline", Rejected |-> "END"]
    ELSE [Fail |-> "improve_joke", Pass |-> "ask_for_applause"]

Gate(node, s) ==
    IF node = "check_albert_message" THEN validate_approval(s) ELSE check_punchline(s)

\* the fields of the state a gate reads
GateReads(node) ==
    IF node = "check_albert_message" THEN {"llm_approval"} ELSE {"joke"}

Nodes(w) ==
    IF w = "release"
    THEN {"consult_slack_messages", "check_albert_message",
          "trigger_pipeline", "check_pipeline_status"}
    ELSE {"generate_joke", "improve_joke", "ask_for_applause", "polish_joke"}

----------------------------------------------------------------------------
(* The run *)

\* the store is no part of a workflow run: the workflows talk to Slack
NoStore ==
    /\ posts_db = <<>>
    /\ replies_db = <<>>
    /\ uuids = 0
    /\ request = <<>>
    /\ response = <<>>

\* chain.invoke(...) of the example, the same with a stale field, and an
\* input without the field the first node reads
InitialStates(w) ==
    IF w = "release"
    THEN {[channel |-> "general"],
          [channel |-> "general", error |-> "stale"],
          [error |-> "stale"]}
    ELSE {[topic |-> "cats"],
          [joke |-> <<"o", "l", "d">>]}

Init ==
    /\ wf \in {"release", "joke"}
    /\ pc = EntryPoint(wf)
    /\ state \in InitialStates(wf)
    /\ input = state
    /\ NoStore
    /\ attempt = 0
    /\ AZURE_DEVOPS_PIPELINE_ID \in (IF wf = "release" THEN PipelineIdSettings ELSE {<<>>})
    /\ AZURE_DEVOPS_TOKEN \in (IF wf = "release" THEN BOOLEAN ELSE {FALSE})
    /\ executed = <<>>
    /\ writes = <<>>
    /\ triggerCalls = 0
    /\ triggered = 0
    /\ checks = 0
    /\ sleeps = 0
    /\ pendings = 0
    /\ malformed = 0
    /\ completions = 0
    /\ albertSeen = {}
    /\ llmAnswer = "none"
    /\ errorsWritten = {}
    /\ errorsRead = {}
    /\ lastGate = <<>>

\* the node's work function returned `update`: merge it, then follow the
\* node's edge, static or chosen by its gate
Finish(node, update) ==
    LET merged == Merge(state, update)
    IN  /\ state' = merged
        /\ writes' = Append(writes, update)
        /\ errorsWritten' =
              IF "error" \in DOMAIN update
              THEN errorsWritten \cup {update["error"]} ELSE errorsWritten
        /\ IF node \in ConditionalNodes
           THEN LET label == Gate(node, merged)
                IN  /\ lastGate' = <<node, label>>
                    /\ errorsRead' =
                          IF "error" \in GateReads(node) /\ Has(merged, "error")
                          THEN errorsRead \cup {merged["error"]} ELSE errorsRead
                    /\ pc' = IF label \in DOMAIN Mapping(node)
                             THEN Mapping(node)[label] ELSE "RAISED"
           ELSE /\ pc' = Edge(node)
                /\ UNCHANGED <<lastGate, errorsRead>>

\* the exception of a work function leaves chain.invoke
Abort ==
    /\ pc' = "RAISED"
    /\ UNCHANGED <<state, writes, errorsWritten, lastGate, errorsRead>>

\* one engine step: call the work function of `node`
Step(node, res) ==
    /\ executed' = Append(executed, node)
    /\ IF res.raised THEN Abort ELSE Finish(node, res.update)

pollVars == <<attempt, checks, sleeps, pendings, malformed, completions>>
config == <<wf, AZURE_DEVOPS_PIPELINE_ID, AZURE_DEVOPS_TOKEN>>
\* what no step of a run assigns
fixed == <<config, input, posts_db, replies_db, uuids, request, response>>
triggerVars == <<triggerCalls, triggered>>

----------------------------------------------------------------------------
(* Release workflow: one action per node *)

ConsultSlackMessages ==
    /\ pc = "consult_slack_messages"
    /\ \E channelAnswer \in ChannelListAnswers, historyAnswer \in HistoryAnswers :
          Step("consult_slack_messages",
               consult_slack_messages(state, channelAnswer, historyAnswer))
    /\ UNCHANGED <<pollVars, fixed, triggerVars, albertSeen, llmAnswer>>

CheckAlbertMessage ==
    /\ pc = "check_albert_message"
    /\ LET messages == Get(state, "slack_messages", <<>>)
       IN  \E lookups \in [DOMAIN messages -> LookupAnswers], llm \in LlmAnswers :
              /\ Step("check_albert_message", check_albert_message(state, lookups, llm))
              /\ albertSeen' =
                    {messages[i].text : i \in {j \in DOMAIN messages :
                          lookups[j] = "ok" /\ messages[j].user = "U_ALBERT"}}
              \* llm.invoke is reached only with a message to review
              /\ llmAnswer' =
                    IF AlbertMessage(messages, lookups) = "" THEN "none"
                    ELSE IF llm.kind = "raises" THEN "raised"
                    ELSE IF llm.kind = "text" /\ Strip(llm.content) = Approved
                    THEN "approved"
                    ELSE IF llm.kind = "text" /\ Contains(Approved, llm.content)
                    THEN "mentions" ELSE "other"
    /\ UNCHANGED <<pollVars, fixed, triggerVars>>

TriggerPipeline ==
    /\ pc = "trigger_pipeline"
    /\ \E answer \in TriggerAnswers :
          /\ Step("trigger_pipeline", trigger_pipeline(state, answer))
          \* the request is sent when the pipeline id parses and the token is set
          /\ triggered' =
                IF /\ IsNumeral(AZURE_DEVOPS_PIPELINE_ID) /\ AZURE_DEVOPS_TOKEN
                   /\ answer.kind = "ok" /\ answer.body.id.t = "int"
                THEN answer.body.id.v ELSE 0
    /\ triggerCalls' =
          IF IsNumeral(AZURE_DEVOPS_PIPELINE_ID) THEN triggerCalls + 1 ELSE triggerCalls
    /\ UNCHANGED <<pollVars, fixed, albertSeen, llmAnswer>>

\* check_pipeline_status up to the loop: the guard, the first sleep, attempt = 0
CheckPipelineStatus ==
    /\ pc = "check_pipeline_status"
    /\ executed' = Append(executed, "check_pipeline_status")
    /\ IF ~HasRun(state)
       THEN /\ Finish("check_pipeline_status",
                      [error |-> "No pipeline ID or build ID available"])
            /\ UNCHANGED pollVars
       ELSE /\ sleeps' = sleeps + 1
            /\ attempt' = 0
            /\ pc' = "poll"
            /\ UNCHANGED <<state, writes, errorsWritten, lastGate, errorsRead,
                           checks, pendings, malformed, completions>>
    /\ UNCHANGED <<fixed, triggerVars, albertSeen, llmAnswer>>

\* one pass of the while body
Poll ==
    /\ pc = "poll"
    /\ Attempting(attempt)
    /\ \E answer \in StatusAnswers :
          LET run_info == get_pipeline_status(state["pipeline_id"], state["build_id"], answer)
              outcome == Interpret(run_info)
          IN  /\ checks' = checks + 1
              /\ CASE outcome = "completed" ->
                        /\ Finish("check_pipeline_status",
                                  [build_status |-> StatusMsg(run_info)])
                        /\ completions' = completions + 1
                        /\ sleeps' = IF LoopSleep(outcome) THEN sleeps + 1 ELSE sleeps
                        /\ UNCHANGED <<attempt, pendings, malformed>>
                   [] outcome = "raise" ->
                        /\ Finish("check_pipeline_status",
                                  [error |-> "Error checking pipeline status"])
                        /\ malformed' = malformed + 1
                        /\ sleeps' = IF LoopSleep(outcome) THEN sleeps + 1 ELSE sleeps
                        /\ UNCHANGED <<attempt, pendings, completions>>
                   [] outcome \in {"pending", "retry"} ->
                        /\ sleeps' = IF LoopSleep(outcome) THEN sleeps + 1 ELSE sleeps
                        /\ attempt' = attempt + 1
                        /\ pendings' = IF outcome = "pending" /\ pendings >= 0
                                        THEN pendings + 1 ELSE -1
                        /\ UNCHANGED <<pc, state, writes, errorsWritten, lastGate,
                                       errorsRead, malformed, completions>>
    /\ UNCHANGED <<fixed, executed, triggerVars, albertSeen, llmAnswer>>

\* the loop ran out of attempts
PollTimeout ==
    /\ pc = "poll"
    /\ ~Attempting(attempt)
    /\ Finish("check_pipeline_status", TimeoutUpdate)
    /\ UNCHANGED <<pollVars, fixed, executed, triggerVars, albertSeen, llmAnswer>>

----------------------------------------------------------------------------
(* Joke workflow: one action per node *)

jokeUnchanged == <<pollVars, fixed, triggerVars, albertSeen, llmAnswer>>

GenerateJoke ==
    /\ pc = "generate_joke"
    /\ \E llm \in JokeAnswers : Step("generate_joke", generate_joke(state, llm))
    /\ UNCHANGED jokeUnchanged

ImproveJoke ==
    /\ pc = "improve_joke"
    /\ \E llm \in JokeAnswers : Step("improve_joke", improve_joke(state, llm))
    /\ UNCHANGED jokeUnchanged

PolishJoke ==
    /\ pc = "polish_joke"
    /\ \E llm \in JokeAnswers : Step("polish_joke", polish_joke(state, llm))
    /\ UNCHANGED jokeUnchanged

AskForApplause ==
    /\ pc = "ask_for_applause"
    /\ \E llm \in JokeAnswers : Step("ask_for_applause", ask_for_applause(state, llm))
    /\ UNCHANGED jokeUnchanged

----------------------------------------------------------------------------

Next ==
    \/ ConsultSlackMessages
    \/ CheckAlbertMessage
    \/ TriggerPipeline
    \/ CheckPipelineStatus
    \/ Poll
    \/ PollTimeout
    \/ GenerateJoke
    \/ ImproveJoke
    \/ PolishJoke
    \/ AskForApplause

Spec == Init /\ [][Next]_vars

\* a run that can take a step takes it: every call returns or raises
FairSpec == Spec /\ WF_vars(Next)

----------------------------------------------------------------------------
(* The gate validate_approval on its own: every state it can be handed *)

\* values of llm_approval: the two check_albert_message writes, and others
ApprovalValues ==
    {"Approved", "Rejected", "approved", "APPROVED", "Approved ", "Yes", ""}

OtherFields == [channel |-> "general", error |-> "stale", albert_message |-> "Ship it"]

\* states with and without llm_approval, with any of the other fields
GateInputs ==
    {Merge([f \in D |-> OtherFields[f]], a) :
        D \in SUBSET DOMAIN OtherFields,
        a \in {NoUpdate} \cup {[llm_approval |-> v] : v \in ApprovalValues}}

GateInit ==
    /\ wf = "release"
    /\ pc = "validate_approval"
    /\ state \in GateInputs
    /\ input = state
    /\ NoStore
    /\ attempt = 0
    /\ AZURE_DEVOPS_PIPELINE_ID = <<>>
    /\ AZURE_DEVOPS_TOKEN = FALSE
    /\ executed = <<>>
    /\ writes = <<>>
    /\ triggerCalls = 0
    /\ triggered = 0
    /\ checks = 0
    /\ sleeps = 0
    /\ pendings = 0
    /\ malformed = 0
    /\ completions = 0
    /\ albertSeen = {}
    /\ llmAnswer = "none"
    /\ errorsWritten = {}
    /\ errorsRead = {}
    /\ lastGate = <<>>

\* the call validate_approval(state): it returns a label and assigns nothing
ValidateApproval ==
    /\ pc = "validate_approval"
    /\ lastGate' = <<"validate_approval", validate_approval(state)>>
    /\ pc' = "returned"
    /\ UNCHANGED <<state, pollVars, fixed, triggerVars, executed, writes,
                   albertSeen, llmAnswer, errorsWritten, errorsRead>>

GateNext == ValidateApproval

GateSpec == GateInit /\ [][GateNext]_vars

----------------------------------------------------------------------------
(* The posts/replies store of src/emulation/teams/app.py                   *)
(* Every handler is an `async def` without an await: the event loop runs   *)
(* it from its first line to its return before it serves another request,  *)
(* so one request is one step, and requests interleave as whole steps.     *)
(* The body of a request has passed the validation of its pydantic model   *)
(* when the handler is called.                                             *)

\* Optional[...] = None
None == "<None>"

Titles == {None, "Plan"}
Users == {"Alexa A."}
Roles == {"SCRUM Master"}
\* the message of a new post or reply, and the message an update sets
NewTexts == {"Hello"}
EditedTexts == {"Edited"}

\* datetime.now().isoformat(): no handler reads a timestamp, and one value
\* stands for every instant
Timestamps == {"now"}

\* the ids a request can name: 0 stands for an id uuid4 never returned
Ids == 0..MaxUuids

PostCreate == [title : Titles, user : Users, role : Roles, message : NewTexts]
PostUpdate == [title : Titles, message : EditedTexts \cup {None}]
ReplyCreate == [post_id : Ids, user : Users, role : Roles, message : NewTexts]
ReplyCreateSimple == [user : Users, role : Roles, message : NewTexts]
ReplyUpdate == [message : EditedTexts]

\* next((x for x in db if x["id"] == id), None): the index of the first
\* match, 0 for None
IndexOf(db, id) ==
    IF \E i \in DOMAIN db : db[i].id = id
    THEN CHOOSE i \in DOMAIN db :
            /\ db[i].id = id
            /\ \A j \in 1..(i - 1) : db[j].id # id
    ELSE 0

\* db.remove(x): drop the first element equal to x
Remove(db, x) ==
    LET i == CHOOSE k \in DOMAIN db : db[k] = x /\ \A j \in 1..(k - 1) : db[j] # x
    IN  [k \in 1..(Len(db) - 1) |-> IF k < i THEN db[k] ELSE db[k + 1]]

\* [reply for reply in replies if reply["post_id"] == post_id]
RepliesOf(replies, post_id) ==
    LET ofPost(r) == r.post_id = post_id IN SelectSeq(replies, ofPost)

\* [r for r in replies if r["post_id"] != post_id]
RepliesNotOf(replies, post_id) ==
    LET notOfPost(r) == r.post_id # post_id IN SelectSeq(replies, notOfPost)

\* raise HTTPException(status_code=..., detail=...)
HTTPException(status_code, detail) == [status |-> status_code, detail |-> detail]

\* return body
Ok(body) == [status |-> 200, body |-> body]

\* what a handler leaves behind: the two stores and the response
Result(posts, replies, resp) ==
    [posts_db |-> posts, replies_db |-> replies, response |-> resp]

\* init_sample_data(): one post and one reply to it, when posts is empty
init_sample_data(posts, replies, now) ==
    IF posts # <<>> THEN Result(posts, replies, <<>>)
    ELSE LET sample_post == [id |-> 1, title |-> "Plan", user |-> "Cristina M.",
                             role |-> "Program Manager", message |-> "Hello",
                             timestamp |-> now]
             sample_reply == [id |-> 2, post_id |-> sample_post.id, user |-> "Alexa A.",
                              role |-> "SCRUM Master", message |-> "Hello",
                              timestamp |-> now]
         IN  Result(Append(posts, sample_post), Append(replies, sample_reply), <<>>)

PostSummary(post) == [id |-> post.id, title |-> post.title, message |-> post.message]

WithReplies(post) ==
    [id |-> post.id, title |-> post.title, user |-> post.user, role |-> post.role,
     message |-> post.message, timestamp |-> post.timestamp,
     replies |-> RepliesOf(replies_db, post.id)]

get_posts ==
    Result(posts_db, replies_db,
           Ok([i \in DOMAIN posts_db |-> PostSummary(posts_db[i])]))

get_posts_full ==
    Result(posts_db, replies_db,
           Ok([i \in DOMAIN posts_db |-> WithReplies(posts_db[i])]))

get_post(post_id) ==
    LET i == IndexOf(posts_db, post_id)
    IN  IF i = 0
        THEN Result(posts_db, replies_db, HTTPException(404, "Post not found"))
        ELSE Result(posts_db, replies_db, Ok(WithReplies(posts_db[i])))

get_replies(post_id) ==
    Result(posts_db, replies_db, Ok(RepliesOf(replies_db, post_id)))

create_post(post, uuid, now) ==
    LET new_post == [id |-> uuid, title |-> post.title, user |-> post.user,
                     role |-> post.role, message |-> post.message, timestamp |-> now]
    IN  Result(Append(posts_db, new_post), replies_db, Ok(new_post))

update_post(post_id, post_update, now) ==
    LET i == IndexOf(posts_db, post_id)
    IN  IF i = 0
        THEN Result(posts_db, replies_db, HTTPException(404, "Post not found"))
        ELSE LET old == posts_db[i]
                 post == [old EXCEPT
                            !.title = IF post_update.title # None
                                      THEN post_update.title ELSE @,
                            !.message = IF post_update.message # None
                                        THEN post_update.message ELSE @,
                            !.timestamp = now]
             IN  Result([posts_db EXCEPT ![i] = post], replies_db, Ok(post))

\* delete the post and leave its replies where they are
delete_post_keeping_replies(post_id) ==
    LET i == IndexOf(posts_db, post_id)
    IN  IF i = 0
        THEN Result(posts_db, replies_db, HTTPException(404, "Post not found"))
        ELSE Result(Remove(posts_db, posts_db[i]), replies_db,
                    Ok("Post deleted successfully"))

delete_post(post_id) ==
    LET i == IndexOf(posts_db, post_id)
    IN  IF i = 0
        THEN Result(posts_db, replies_db, HTTPException(404, "Post not found"))
        ELSE Result(Remove(posts_db, posts_db[i]),
                    RepliesNotOf(replies_db, post_id),
                    Ok("Post deleted successfully"))

create_reply(reply, uuid, now) ==
    IF IndexOf(posts_db, reply.post_id) = 0
    THEN Result(posts_db, replies_db, HTTPException(404, "Post not found"))
    ELSE LET new_reply == [id |-> uuid, post_id |-> reply.post_id, user |-> reply.user,
                           role |-> reply.role, message |-> reply.message,
                           timestamp |-> now]
         IN  Result(posts_db, Append(replies_db, new_reply), Ok(new_reply))

\* store the reply without looking for the post
create_reply_simple_unchecked(post_id, reply, uuid, now) ==
    LET new_reply == [id |-> uuid, post_id |-> post_id, user |-> reply.user,
                      role |-> reply.role, message |-> reply.message,
                      timestamp |-> now]
    IN  Result(posts_db, Append(replies_db, new_reply), Ok(new_reply))

create_reply_simple(post_id, reply, uuid, now) ==
    IF IndexOf(posts_db, post_id) = 0
    THEN Result(posts_db, replies_db, HTTPException(404, "Post not found"))
    ELSE LET new_reply == [id |-> uuid, post_id |-> post_id, user |-> reply.user,
                           role |-> reply.role, message |-> reply.message,
                           timestamp |-> now]
         IN  Result(posts_db, Append(replies_db, new_reply), Ok(new_reply))

update_reply(reply_id, reply_update, now) ==
    LET i == IndexOf(replies_db, reply_id)
    IN  IF i = 0
        THEN Result(posts_db, replies_db, HTTPException(404, "Reply not found"))
        ELSE LET reply == [replies_db[i] EXCEPT !.message = reply_update.message,
                                                !.timestamp = now]
             IN  Result(posts_db, [replies_db EXCEPT ![i] = reply], Ok(reply))

delete_reply(reply_id) ==
    LET i == IndexOf(replies_db, reply_id)
    IN  IF i = 0
        THEN Result(posts_db, replies_db, HTTPException(404, "Reply not found"))
        ELSE Result(posts_db, Remove(replies_db, replies_db[i]),
                    Ok("Reply deleted successfully"))

----------------------------------------------------------------------------
(* The store: one action per request handler *)

\* the variables of the workflows, which no request touches
workflowVars ==
    <<wf, pc, state, input, attempt, AZURE_DEVOPS_PIPELINE_ID, AZURE_DEVOPS_TOKEN,
      executed, writes, triggerCalls, triggered, checks, sleeps, pendings,
      malformed, completions, albertSeen, llmAnswer, errorsWritten, errorsRead,
      lastGate>>

\* the module is imported: posts_db = [], replies_db = [], init_sample_data()
StoreInit ==
    /\ wf = "store"
    /\ pc = "serving"
    /\ state = NoUpdate
    /\ input = NoUpdate
    /\ attempt = 0
    /\ AZURE_DEVOPS_PIPELINE_ID = <<>>
    /\ AZURE_DEVOPS_TOKEN = FALSE
    /\ executed = <<>>
    /\ writes = <<>>
    /\ triggerCalls = 0
    /\ triggered = 0
    /\ checks = 0
    /\ sleeps = 0
    /\ pendings = 0
    /\ malformed = 0
    /\ completions = 0
    /\ albertSeen = {}
    /\ llmAnswer = "none"
    /\ errorsWritten = {}
    /\ errorsRead = {}
    /\ lastGate = <<>>
    /\ \E now \in Timestamps :
          LET r == init_sample_data(<<>>, <<>>, now)
          IN  /\ posts_db = r.posts_db
              /\ replies_db = r.replies_db
    /\ uuids = 2
    /\ request = <<>>
    /\ response = <<>>

\* the handler `op` served a request naming `id` (a post id, a reply id, or
\* nothing) and left the result r
Serve(op, names, id, r) ==
    /\ request' = [op |-> op, names |-> names, id |-> id,
                   replies_before |-> Len(replies_db)]
    /\ posts_db' = r.posts_db
    /\ replies_db' = r.replies_db
    /\ response' = r.response
    /\ UNCHANGED workflowVars

\* a handler that calls uuid.uuid4()
ServeNew(op, names, id, r) ==
    /\ uuids' = uuids + 1
    /\ Serve(op, names, id, r)

GetPosts ==
    /\ pc = "serving"
    /\ Serve("get_posts", "none", 0, get_posts)
    /\ UNCHANGED uuids

GetPostsFull ==
    /\ pc = "serving"
    /\ Serve("get_posts_full", "none", 0, get_posts_full)
    /\ UNCHANGED uuids

GetPost ==
    /\ pc = "serving"
    /\ \E post_id \in Ids : Serve("get_post", "post", post_id, get_post(post_id))
    /\ UNCHANGED uuids

GetReplies ==
    /\ pc = "serving"
    /\ \E post_id \in Ids : Serve("get_replies", "post", post_id, get_replies(post_id))
    /\ UNCHANGED uuids

CreatePost ==
    /\ pc = "serving"
    /\ uuids < MaxUuids
    /\ \E post \in PostCreate, now \in Timestamps :
          ServeNew("create_post", "none", 0, create_post(post, uuids + 1, now))

UpdatePost ==
    /\ pc = "serving"
    /\ \E post_id \in Ids, post_update \in PostUpdate, now \in Timestamps :
          Serve("update_post", "post", post_id, update_post(post_id, post_update, now))
    /\ UNCHANGED uuids

DeletePost ==
    /\ pc = "serving"
    /\ \E post_id \in Ids : Serve("delete_post", "post", post_id, delete_post(post_id))
    /\ UNCHANGED uuids

\* uuid4 is called only once the post was found
CreateReply ==
    /\ pc = "serving"
    /\ \E reply \in ReplyCreate, now \in Timestamps :
          LET r == create_reply(reply, uuids + 1, now)
          IN  IF r.response.status = 200
              THEN uuids < MaxUuids /\ ServeNew("create_reply", "post", reply.post_id, r)
              ELSE Serve("create_reply", "post", reply.post_id, r) /\ UNCHANGED uuids

CreateReplySimple ==
    /\ pc = "serving"
    /\ \E post_id \in Ids, reply \in ReplyCreateSimple, now \in Timestamps :
          LET r == create_reply_simple(post_id, reply, uuids + 1, now)
          IN  IF r.response.status = 200
              THEN uuids < MaxUuids /\ ServeNew("create_reply_simple", "post", post_id, r)
              ELSE Serve("create_reply_simple", "post", post_id, r) /\ UNCHANGED uuids

UpdateReply ==
    /\ pc = "serving"
    /\ \E reply_id \in Ids, reply_update \in ReplyUpdate, now \in Timestamps :
          Serve("update_reply", "reply", reply_id,
                update_reply(reply_id, reply_update, now))
    /\ UNCHANGED uuids

DeleteReply ==
    /\ pc = "serving"
    /\ \E reply_id \in Ids :
          Serve("delete_reply", "reply", reply_id, delete_reply(reply_id))
    /\ UNCHANGED uuids

StoreNext ==
    \/ GetPosts
    \/ GetPostsFull
    \/ GetPost
    \/ GetReplies
    \/ CreatePost
    \/ UpdatePost
    \/ DeletePost
    \/ CreateReply
    \/ CreateReplySimple
    \/ UpdateReply
    \/ DeleteReply

StoreSpec == StoreInit /\ [][StoreNext]_vars

----------------------------------------------------------------------------
(* Properties *)

Ended == pc = "END"

\* check_pipeline_status returned a completed outcome
ReturnedCompleted ==
    /\ Ended
    /\ completions > 0
    /\ Has(state, "build_status")
    /\ state["build_status"].text \in {"Completed", "Completed - "}

\* check_pipeline_status returned the timed-out outcome
ReturnedTimeout ==
    /\ Ended
    /\ Has(state, "build_status")
    /\ state["build_status"] = TimeoutUpdate["build_status"]

\* C1 (as claimed): when the status check answers Pending k-1 times and completed
\* the k-th time, k <= max_attempts, check_pipeline_status returns the completed
\* outcome after exactly k status checks and exactly k-1 sleeps.
C1_CompletedAfterKChecksAndKMinus1Sleeps ==
    (Ended /\ completions = 1 /\ pendings >= 0 /\ pendings + 1 <= max_attempts)
        => /\ ReturnedCompleted
           /\ checks = pendings + 1
           /\ sleeps = pendings

\* C1 (amended): when the status check answers Pending k-1 times and completed
\* the k-th time, k <= max_attempts, check_pipeline_status returns the completed
\* outcome after exactly k status checks and exactly k sleeps: the sleep before
\* the first check and one sleep after each of the k-1 Pending answers.
C1_CompletedAfterKChecksAndKSleeps ==
    (Ended /\ completions = 1 /\ pendings >= 0 /\ pendings + 1 <= max_attempts)
        => /\ ReturnedCompleted
           /\ checks = pendings + 1
           /\ sleeps = pendings + 1

\* the completed answer is the last one the budget allows: k = max_attempts
C1_Witness ==
    ReturnedCompleted /\ completions = 1 /\ pendings = max_attempts - 1

\* C2: when every status check answers Pending, the loop ends with the timed-out
\* outcome after exactly max_attempts status checks; the number of status checks
\* never exceeds max_attempts.
C2_TimeoutAfterExactlyMaxAttempts ==
    /\ checks <= max_attempts
    /\ (Ended /\ sleeps > 0 /\ pendings >= 0 /\ completions = 0 /\ malformed = 0)
          => /\ ReturnedTimeout
             /\ checks = max_attempts
             /\ pendings = max_attempts

C2_Witness ==
    ReturnedTimeout /\ pendings = max_attempts /\ checks = max_attempts

\* C3: trigger_azure_pipeline is invoked at most once in a run, on every path.
C3_TriggerAtMostOnce == triggerCalls <= 1

\* the trigger was invoked and failed, or was invoked and the polling timed out
C3_Witness ==
    /\ Ended /\ triggerCalls = 1
    /\ \/ ReturnedTimeout
       \/ (triggered = 0 /\ ~Has(state, "build_id"))

\* C4: in a run where no message from Albert H. with text is found,
\* check_albert_message records llm_approval "Rejected" and an error,
\* validate_approval routes to END, and neither the trigger nor the status
\* check is invoked.
C4_NoMessageEndsRun ==
    ("check_albert_message" \in Range(executed) /\ albertSeen \subseteq {""})
        => /\ Ended
           /\ Get(state, "llm_approval", "") = "Rejected"
           /\ Get(state, "error", "") = "No message from Albert H. found in channel"
           /\ lastGate = <<"check_albert_message", "Rejected">>
           /\ triggerCalls = 0 /\ checks = 0 /\ sleeps = 0
           /\ executed = <<"consult_slack_messages", "check_albert_message">>

\* a channel with messages, none of them from Albert H.
C4_Witness ==
    /\ Ended /\ "check_albert_message" \in Range(executed) /\ albertSeen = {}
    /\ Get(state, "slack_messages", <<>>) # <<>>

\* C5: a message is found, the model answers Approved, the trigger returns a
\* run id and every status check answers Pending: the run reaches END with the
\* run id recorded, build_status the timeout value, error the timed-out value,
\* after exactly max_attempts status checks.
C5_ApprovedThenTimeout ==
    ( /\ pc \in {"END", "RAISED"}
      /\ "Ship it" \in albertSeen
      /\ llmAnswer = "approved"
      /\ triggered # 0
      /\ pendings >= 0 /\ completions = 0 /\ malformed = 0 )
        => /\ Ended
           /\ Get(state, "build_id", 0) = triggered
           /\ ReturnedTimeout
           /\ Get(state, "error", "") = "Pipeline status check timed out"
           /\ checks = max_attempts

C5_Witness ==
    /\ Ended /\ triggered = 42 /\ pendings = max_attempts
    /\ llmAnswer = "approved"
    /\ Get(state, "build_id", 0) = 42
    /\ Get(state, "error", "") = "Pipeline status check timed out"

\* C6: no node work function raises, whatever the state it is given and
\* whatever its collaborators do: chain.invoke never ends by an exception of a
\* node.
C6_NodesNeverRaise == pc # "RAISED"

\* C7: a status check that fails (HTTP error, exception in the request,
\* unusable response) is retried as Pending within the attempt budget: the
\* poll never ends because of it before max_attempts status checks.
C7_StatusFaultNeverAborts ==
    (Ended /\ malformed > 0) => (completions > 0 \/ checks = max_attempts)

\* C8: every error value a node wrote was read by a gate or is the error of
\* the final state.
C8_NoErrorLost ==
    Ended => \A e \in errorsWritten :
                e \in errorsRead \/ (Has(state, "error") /\ state["error"] = e)

\* at most as many node steps as the graph has nodes (4), no node twice
AcyclicSoFar ==
    /\ Cardinality(Nodes(wf)) = 4
    /\ Len(executed) <= Cardinality(Nodes(wf))
    /\ Range(executed) \subseteq Nodes(wf)
    /\ Cardinality(Range(executed)) = Len(executed)
    /\ pc \in Nodes(wf) => pc \notin Range(executed)

\* C9: every run of either graph executes at most as many node steps as the
\* graph has nodes (4), executes no node twice, and, every node invocation
\* returning or raising (FairSpec), reaches END unless a node raised.
C9_RunEndsWithinNSteps ==
    /\ []AcyclicSoFar
    /\ <>(pc \in {"END", "RAISED"})

\* the longest run of the joke workflow
C9_Witness ==
    /\ Ended
    /\ executed = <<"generate_joke", "improve_joke", "polish_joke", "ask_for_applause">>

\* C10: the label a gate returns is a key of the node's mapping:
\* check_punchline returns Pass or Fail, validate_approval Approved or Rejected.
C10_GateLabelsMapped ==
    lastGate # <<>> =>
        /\ lastGate[2] \in DOMAIN Mapping(lastGate[1])
        /\ lastGate[1] = "generate_joke" => lastGate[2] \in {"Pass", "Fail"}
        /\ lastGate[1] = "check_albert_message" => lastGate[2] \in {"Approved", "Rejected"}

C10_Witness ==
    /\ lastGate = <<"generate_joke", "Fail">>
    /\ pc = "improve_joke"

\* C11: handed a state without llm_approval, or with any value of it other
\* than exactly "Approved", validate_approval returns "Rejected", does not
\* fault, and leaves every field of the state as it was.
C11_GateDefaultsToRejected ==
    [][(pc = "validate_approval" /\ Get(state, "llm_approval", "") # "Approved")
          => /\ pc' = "returned"
             /\ lastGate' = <<"validate_approval", "Rejected">>
             /\ state' = state]_vars

\* the gate returned Rejected for a state without the field, or for one whose
\* value differs from Approved only in case
C11_Witness ==
    /\ pc = "returned"
    /\ lastGate = <<"validate_approval", "Rejected">>
    /\ Get(state, "llm_approval", "approved") = "approved"

\* the indices of the updates that wrote field f
Writers(f) == {i \in DOMAIN writes : f \in DOMAIN writes[i]}

\* the last of them
LastWriter(f) == CHOOSE j \in Writers(f) : \A i \in Writers(f) : i <= j

\* C12: when two nodes A then B of a run both wrote field f, the final state's f
\* is the value B wrote, whatever A wrote (error: consult_slack_messages,
\* check_albert_message, trigger_pipeline, check_pipeline_status; build_status:
\* trigger_pipeline then check_pipeline_status).
C12_LastWriterWins ==
    Ended => \A f \in {"error", "build_status"} :
                Writers(f) # {} =>
                    /\ Has(state, f)
                    /\ state[f] = writes[LastWriter(f)][f]

\* trigger_pipeline wrote InProgress, check_pipeline_status a completed status
C12_Witness ==
    /\ Ended
    /\ Cardinality(Writers("build_status")) = 2
    /\ writes[LastWriter("build_status")]["build_status"].text = "Completed - "
    /\ state["build_status"].text = "Completed - "


\* C13: the set of fields present in the state record never shrinks: every
\* step of a run keeps each field that was present before it
C13_FieldsNeverRemoved == [][DOMAIN state \subseteq DOMAIN state']_vars

\* a release run at END that still holds the caller's channel next to the
\* fields written by all four nodes
C13_Witness ==
    /\ pc = "END"
    /\ Len(executed) = 4
    /\ {"channel", "slack_messages", "llm_approval", "pipeline_id", "build_id",
        "build_status"} \subseteq DOMAIN state


\* C14: when the status check reports a completed run, check_pipeline_status
\* returns that outcome at once: the step that receives the terminal answer
\* does not sleep and ends the node, and no sleep and no status check happens
\* after it.
C14_TerminalAnswerReturnsAtOnce ==
    [][/\ completions' # completions
            => /\ checks' = checks + 1
               /\ sleeps' = sleeps
               /\ pc' = "END"
               /\ state'["build_status"].text \in {"Completed", "Completed - "}
       /\ completions > 0 => checks' = checks /\ sleeps' = sleeps]_vars

\* the terminal answer came third, after two answers that kept the loop going
C14_Witness ==
    /\ ReturnedCompleted
    /\ completions = 1
    /\ checks = 3
    /\ sleeps = 3


\* C15: after a Pending answer the polling loop sleeps only if attempts remain:
\* every sleep is followed by another status check, so a node that has returned
\* has slept no more often than it has checked, and the timed-out outcome is
\* returned without a sleep after the last check.
C15_SleepOnlyIfAttemptsRemain ==
    (Ended /\ checks > 0) => sleeps <= checks


\* the joke written by generate_joke has no punchline mark
GeneratedWithoutPunchline ==
    /\ wf = "joke"
    /\ writes # <<>>
    /\ ~Contains(<<"?">>, state["joke"])
    /\ ~Contains(<<"!">>, state["joke"])

\* C16: in the joke workflow, when the generated joke contains neither "?" nor
\* "!", the gate returns Fail and the run executes generate_joke, improve_joke,
\* polish_joke, ask_for_applause in that order and reaches END with joke,
\* improved_joke, final_joke and ask_for_applause all set, written in that
\* order.
C16_FailPathRunsAllFourNodes ==
    (GeneratedWithoutPunchline /\ pc \in {"END", "RAISED"})
        => /\ pc = "END"
           /\ lastGate = <<"generate_joke", "Fail">>
           /\ executed = <<"generate_joke", "improve_joke", "polish_joke",
                           "ask_for_applause">>
           /\ [i \in DOMAIN writes |-> DOMAIN writes[i]] =
                 <<{"joke"}, {"improved_joke"}, {"final_joke"}, {"ask_for_applause"}>>
           /\ {"joke", "improved_joke", "final_joke", "ask_for_applause"}
                 \subseteq DOMAIN state


\* the joke written by generate_joke holds a punchline mark
GeneratedWithPunchline ==
    /\ wf = "joke"
    /\ writes # <<>>
    /\ Contains(<<"?">>, state["joke"]) \/ Contains(<<"!">>, state["joke"])

\* C17: in the joke workflow, when the generated joke contains "?" or "!", the
\* gate routes directly from generate_joke to ask_for_applause: improve_joke and
\* polish_joke never execute, and the state never gets an improved_joke or a
\* final_joke field.
C17_PassPathSkipsImprovement ==
    GeneratedWithPunchline
        => /\ lastGate = <<"generate_joke", "Pass">>
           /\ Len(executed) = 1 => pc = "ask_for_applause"
           /\ Len(executed) <= 2
           /\ \A i \in DOMAIN executed :
                 executed[i] = <<"generate_joke", "ask_for_applause">>[i]
           /\ ~Has(state, "improved_joke")
           /\ ~Has(state, "final_joke")

\* a run on the pass path that reached END
C17_Witness ==
    /\ GeneratedWithPunchline
    /\ pc = "END"
    /\ executed = <<"generate_joke", "ask_for_applause">>
    /\ DOMAIN state = {"topic", "joke", "ask_for_applause"}


\* C18: the successor of a node is decided by its static edge or by the label
\* of its gate, never by the error field: whenever consult_slack_messages
\* returns, with or without an error, check_albert_message is the next node and
\* the next step executes it; whenever trigger_pipeline returns, with or
\* without an error, check_pipeline_status is the next node and the next step
\* executes it.
C18_SuccessorIgnoresError ==
    [][/\ (pc = "consult_slack_messages" /\ pc' # "RAISED")
            => pc' = "check_albert_message"
       /\ (pc = "trigger_pipeline" /\ pc' # "RAISED")
            => pc' = "check_pipeline_status"
       /\ pc \in {"check_albert_message", "check_pipeline_status"}
            => executed' = Append(executed, pc)]_vars

\* trigger_pipeline recorded an error and check_pipeline_status ran after it
C18_Witness ==
    /\ Len(executed) = 4
    /\ executed[3] = "trigger_pipeline"
    /\ executed[4] = "check_pipeline_status"
    /\ "error" \in DOMAIN writes[3]
    /\ "error" \in DOMAIN writes[4]


\* a non-empty message of Albert H. was found, llm.invoke answered, and its
\* answer holds the text Approved
ApprovalGrounds ==
    /\ \E text \in albertSeen : text # ""
    /\ llmAnswer \in {"approved", "mentions"}

\* C19: once check_albert_message has run, llm_approval is exactly Approved or
\* exactly Rejected, whatever the model answered; it is Approved only if a
\* non-empty message of Albert H. was found, the model call did not fail and
\* the answer holds the text Approved; the pipeline is triggered only in runs
\* where all three hold.
C19_ApprovalOnlyOnGrounds ==
    /\ (Len(executed) >= 2 /\ executed[2] = "check_albert_message")
          => /\ Has(state, "llm_approval")
             /\ state["llm_approval"] \in {"Approved", "Rejected"}
             /\ state["llm_approval"] = "Approved" => ApprovalGrounds
    /\ (pc = "trigger_pipeline" \/ triggerCalls > 0 \/ triggered # 0)
          => ApprovalGrounds

\* the model wrapped the word in a longer answer and the pipeline was triggered
C19_Witness ==
    /\ llmAnswer = "mentions"
    /\ state["llm_approval"] = "Approved"
    /\ triggerCalls = 1


\* trigger_pipeline returned without recording both a pipeline id and a build id
TriggerRecordedNoRun ==
    /\ Len(executed) >= 3
    /\ executed[3] = "trigger_pipeline"
    /\ ~({"pipeline_id", "build_id"} \subseteq DOMAIN writes[3])

\* C20: when trigger_pipeline did not record both a pipeline id and a build
\* id, check_pipeline_status still executes, makes no status check and no
\* sleep, and returns only the error update "No pipeline ID or build ID
\* available".
C20_NoRunNoPolling ==
    TriggerRecordedNoRun
        => /\ checks = 0
           /\ sleeps = 0
           /\ Len(executed) = 3 => pc = "check_pipeline_status"
           /\ Len(executed) = 4
                 => /\ executed[4] = "check_pipeline_status"
                    /\ pc = "END"
                    /\ writes[4] = [error |-> "No pipeline ID or build ID available"]

\* the trigger answered without a build id to extract: pipeline_id is recorded,
\* build_id is not, and check_pipeline_status has returned
C20_Witness ==
    /\ TriggerRecordedNoRun
    /\ "pipeline_id" \in DOMAIN writes[3]
    /\ Len(executed) = 4
    /\ pc = "END"
    /\ state["error"] = "No pipeline ID or build ID available"


\* C21: a release run started with the channel field alone ends in a
\* consistent state: with a Completed build_status there is no error field;
\* with build_status still InProgress, or the Timeout value, there is an error
\* field.
C21_FinalStatusAgreesWithError ==
    (Ended /\ wf = "release" /\ DOMAIN input = {"channel"} /\ Has(state, "build_status"))
        => LET status == state["build_status"]
           IN  /\ status.text \in {"Completed", "Completed - "} => ~Has(state, "error")
               /\ status.text = "InProgress" => Has(state, "error")
               /\ status = TimeoutUpdate["build_status"] => Has(state, "error")

\* a run from the channel alone that ended Completed with a result, no error
C21_Witness ==
    /\ Ended
    /\ DOMAIN input = {"channel"}
    /\ ReturnedCompleted
    /\ state["build_status"].text = "Completed - "
    /\ ~Has(state, "error")


\* C22: in the posts/replies store, after any sequence of requests in any
\* order, every reply in replies_db has the post_id of a post that is in
\* posts_db: replies are created for existing posts only, and deleting a post
\* deletes its replies.
C22_RepliesBelongToPosts ==
    \A i \in DOMAIN replies_db :
        \E j \in DOMAIN posts_db : posts_db[j].id = replies_db[i].post_id

\* the sample post was deleted while two replies were stored: its reply went
\* with it, the reply to the post created later stayed
C22_Witness ==
    /\ request # <<>>
    /\ request.op = "delete_post"
    /\ request.id = 1
    /\ response.status = 200
    /\ request.replies_before = 2
    /\ Len(replies_db) = 1
    /\ replies_db[1].post_id = 3

\* the handlers that look up the post or the reply a request names
LookupHandlers ==
    {"get_post", "update_post", "delete_post", "create_reply",
     "create_reply_simple", "update_reply", "delete_reply"}

\* C23: every request to get_post, update_post, delete_post, create_reply,
\* create_reply_simple, update_reply or delete_reply that names a post id or
\* a reply id not in the store ends with a 404 not-found error and leaves
\* posts_db and replies_db as they were.
C23_UnknownIdIsNotFound ==
    [][(/\ request' # <<>>
        /\ request'.op \in LookupHandlers
        /\ \/ /\ request'.names = "post"
              /\ \A i \in DOMAIN posts_db : posts_db[i].id # request'.id
           \/ /\ request'.names = "reply"
              /\ \A i \in DOMAIN replies_db : replies_db[i].id # request'.id)
          => /\ response'.status = 404
             /\ response'.detail = IF request'.names = "post"
                                   THEN "Post not found" ELSE "Reply not found"
             /\ posts_db' = posts_db
             /\ replies_db' = replies_db]_vars

\* an update of the sample reply after it was deleted
C23_Witness ==
    /\ request # <<>>
    /\ request.op = "update_reply"
    /\ request.id = 2
    /\ response.status = 404
    /\ replies_db # <<>>

====
